---- MODULE Spec2Model ----
(***************************************************************************)
(* Model of chs-compliancepolicygenerator (src/main.py): the pipeline      *)
(* load_config -> validate_config -> load_template -> generate_script run  *)
(* by CompliancePolicyGenerator.run() under main(), over a small file      *)
(* system.  A file is a record [exists, lines]; a text is a sequence of    *)
(* lines.  The command is run up to MaxRuns times in a row with the same   *)
(* argv, the file system persisting between the runs.                     *)
(***************************************************************************)
EXTENDS Integers, Sequences, FiniteSets, TLC

VARIABLES
    fs,
                   \* path -> [exists, lines]: the files on disk
    args,
                   \* argparse namespace: the four required flags
    env,
                   \* what the OS lets this run do: [cfg_readable, out]
    config,
                   \* self.config
    template,        \* self.template
    template_path_arg, \* local template_path of load_template, "" until computed
    rendered_script, \* local of generate_script
    pc,
                   \* position of the run
    raised,
                   \* class of the exception in flight, "none" if none
    exit_status,     \* process exit status, Running until the process ends
    log,
                   \* records emitted through logging in this run
    started,         \* stages entered in this run, in order
    finished,        \* [stage, outcome, nlog] of the stages left in this run
    before,
                   \* fs as it was when this run began
    prev,
                   \* summary of the previous run of the same command
    run_no           \* number of the current run

vars == <<fs, args, env, config, template, template_path_arg, rendered_script, pc, raised,
          exit_status, log, started, finished, before, prev, run_no>>

-----------------------------------------------------------------------------
(* Bounds *)

MaxRuns == 2

-----------------------------------------------------------------------------
(* argv *)

Platforms == {"linux", "linux/x"}
Standards == {"CIS", "x/CIS"}
ConfigPath == "config.yaml"
ScriptPath == "hardening.sh"
OutputPaths == {ScriptPath, ConfigPath}

\* main.py:67; faulty variant: the platform left out of the path
template_path_noplatform(platform, compliance_standard) ==
    "templates/" \o compliance_standard \o ".j2"

template_path(platform, compliance_standard) ==
    "templates/" \o platform \o "/" \o compliance_standard \o ".j2"

TemplatePaths == {template_path(p, s) : p \in Platforms, s \in Standards}

Paths == {ConfigPath, ScriptPath} \cup TemplatePaths

-----------------------------------------------------------------------------
(* Files *)

Absent == [exists |-> FALSE, lines |-> <<>>]
File(text) == [exists |-> TRUE, lines |-> text]

\* configuration documents
CfgBroken      == <<"policies: [">>
CfgEmpty       == <<>>
CfgSequence    == <<"- 1", "- 2", "- 3">>
CfgScalar      == <<"42">>
CfgEmptyMap    == <<"{}">>
CfgNoPolicies  == <<"owner: ops">>
CfgPolicies    == <<"policies:", "- name: Disable cups", "  services: [cups]">>
ConfigDocs == {CfgBroken, CfgEmpty, CfgSequence, CfgScalar, CfgEmptyMap,
               CfgNoPolicies, CfgPolicies}

\* template sources
TplStatic == <<"#!/bin/bash", "echo hardened">>
TplLoop   == <<"#!/bin/bash", "{% for policy in config.policies %}",
               "systemctl disable {{ policy.services[0] }}", "{% endfor %}">>
TplStrict == <<"# {{ config.policies[0].name }}">>
TplBroken == <<"{% for policy in config.policies %}">>
TemplateSources == {TplStatic, TplLoop, TplStrict, TplBroken}

OldScript == <<"old script">>

-----------------------------------------------------------------------------
(* yaml.safe_load (main.py:42): the parsed top-level value, or a YAMLError *)

Null      == [kind |-> "null",     keys |-> {}]
Scalar    == [kind |-> "scalar",   keys |-> {}]
Sequence  == [kind |-> "sequence", keys |-> {}]
Mapping(ks) == [kind |-> "mapping", keys |-> ks]
YAMLError == [kind |-> "YAMLError", keys |-> {}]

IsComment(line) == line \in {"#!/bin/bash", "# Disable cups"}

yaml_safe_load(text) ==
    LET doc == SelectSeq(text, LAMBDA l : ~IsComment(l)) IN
    IF doc = <<>> THEN Null
    ELSE IF doc = CfgBroken THEN YAMLError
    ELSE IF doc = CfgSequence THEN Sequence
    ELSE IF doc = CfgEmptyMap THEN Mapping({})
    ELSE IF doc = CfgNoPolicies THEN Mapping({"owner"})
    ELSE IF doc = CfgPolicies THEN Mapping({"policies"})
    ELSE Scalar

-----------------------------------------------------------------------------
(* jinja2: Environment.get_template (main.py:70), Template.render (main.py:84) *)

get_template(file) ==
    IF ~file.exists THEN "TemplateNotFound"
    ELSE IF file.lines = TplBroken THEN "TemplateSyntaxError"
    ELSE "ok"

NoTemplate == [loaded |-> FALSE, source |-> <<>>]
Loaded(src) == [loaded |-> TRUE, source |-> src]

Rendered(text) == [ok |-> TRUE, lines |-> text]
UndefinedError == [ok |-> FALSE, lines |-> <<>>]

\* template.render(config=cfg): text outside directives is copied; a loop over
\* an undefined config.policies runs zero times; subscripting it raises.
render(src, cfg) ==
    IF src = TplLoop THEN
        IF "policies" \in cfg.keys
        THEN Rendered(<<"#!/bin/bash", "systemctl disable cups">>)
        ELSE Rendered(<<"#!/bin/bash">>)
    ELSE IF src = TplStrict THEN
        IF "policies" \in cfg.keys
        THEN Rendered(<<"# Disable cups">>)
        ELSE UndefinedError
    ELSE Rendered(src)

-----------------------------------------------------------------------------
(* Logging (main.py:11): a record is a level and a message *)

Rec(level, msg) == [level |-> level, msg |-> msg]
Errors(l) == SelectSeq(l, LAMBDA r : r.level = "ERROR")
Warnings(l) == SelectSeq(l, LAMBDA r : r.level = "WARNING")
HasMsg(l, msg) == \E i \in 1..Len(l) : l[i].msg = msg
Range(f) == {f[i] : i \in DOMAIN f}

\* main.py:43-49
load_config_log(outcome) ==
    IF outcome = "ok" THEN <<Rec("INFO", "Configuration loaded from")>>
    ELSE IF outcome = "FileNotFoundError"
         THEN <<Rec("ERROR", "Configuration file not found")>>
    ELSE IF outcome = "YAMLError"
         THEN <<Rec("ERROR", "Error parsing YAML configuration")>>
    ELSE <<>>

\* main.py:55; faulty variant: None accepted as a configuration
isinstance_dict_or_none(value) == value.kind \in {"mapping", "null"}

isinstance_dict(value) == value.kind = "mapping"

\* main.py:60
policies_missing(cfg) == "policies" \notin cfg.keys

\* main.py:55-61: the exception validate_config leaves with, "ok" if none;
\* faulty variant: a missing 'policies' key raises too
validate_policies_required(cfg) ==
    IF ~isinstance_dict(cfg) \/ policies_missing(cfg) THEN "ValueError" ELSE "ok"

validate_outcome(cfg) ==
    IF ~isinstance_dict(cfg) THEN "ValueError" ELSE "ok"

\* main.py:56, 61
validate_config_log(cfg) ==
    IF ~isinstance_dict(cfg)
    THEN <<Rec("ERROR", "Invalid configuration format. Expected a dictionary.")>>
    ELSE IF policies_missing(cfg)
    THEN <<Rec("WARNING", "No 'policies' key found in the configuration.")>>
    ELSE <<>>

\* main.py:71-76; faulty variant: no INFO record on success
load_template_log_quiet(outcome) ==
    IF outcome = "ok" THEN <<>>
    ELSE <<Rec("ERROR", "Template not found")>>

load_template_log(outcome) ==
    IF outcome = "ok" THEN <<Rec("INFO", "Template loaded from")>>
    ELSE IF outcome = "TemplateNotFound" THEN <<Rec("ERROR", "Template not found")>>
    ELSE <<Rec("ERROR", "Error loading template")>>

\* main.py:87, 89
SuccessMsg == "Script generated successfully"
generate_script_error_log == <<Rec("ERROR", "Error generating script")>>

\* main.py:102; faulty variant: run() exits without logging
run_except_log_silent == <<>>

run_except_log == <<Rec("ERROR", "Script generation failed")>>

\* main.py:133
main_except_log == <<Rec("ERROR", "An unexpected error occurred")>>

-----------------------------------------------------------------------------
(* Control flow of run() and main() *)

Running == -1
ExitSuccess == 0

\* main.py:103, 134
ExitFailure == 1

\* main.py:97-100
run_order == <<"load_config", "validate_config", "load_template", "generate_script">>

StageIndex(stage) == CHOOSE i \in 1..Len(run_order) : run_order[i] = stage

\* where run() goes when a stage returns
after_return(stage) ==
    IF StageIndex(stage) < Len(run_order)
    THEN run_order[StageIndex(stage) + 1]
    ELSE "return"

\* where run() goes when a stage raises: the except clause of main.py:101;
\* faulty variant: the exception is swallowed and run() carries on
after_raise_swallowed(stage) == after_return(stage)

after_raise(stage) == "except"

\* main.py:132: `except Exception` catches Exception subclasses, not SystemExit;
\* faulty variant: a bare except, which catches SystemExit too
main_catches_all(exc) == exc # "none"

main_catches(exc) == exc \notin {"none", "SystemExit"}

\* open(self.output_file, 'w') followed by a complete f.write(text), main.py:85-86;
\* faulty variants: mode 'a', and an existing file left alone
write_file_append(old, text) == File(old.lines \o text)

write_file_keep_existing(old, text) == IF old.exists THEN old ELSE File(text)

write_file(old, text) == File(text)

\* what a write that fails partway may leave: the file truncated, then a strict
\* prefix of the text
PartialWrites(text) ==
    {File(SubSeq(text, 1, k)) : k \in 0..(Len(text) - 1)} \cup {File(<<>>)}

Enter(stage) == Append(started, [stage |-> stage, at |-> Len(log)])
Leave(stage, outcome, entered, log2) ==
    Append(finished, [stage |-> stage, outcome |-> outcome,
                      nlog |-> Len(log2) - entered[Len(entered)].at])

-----------------------------------------------------------------------------
(* The state a run begins in *)

Envs == [cfg_readable : BOOLEAN, out : {"ok", "open_fails", "write_fails"}]

Argvs == [compliance_standard : Standards, config_file : {ConfigPath},
          output_file : OutputPaths, platform : Platforms]

\* the disks the first run may find: a configuration document or none, one
\* template or none under templates/, an earlier script or none
InstalledTemplatePaths == {template_path("linux", "CIS"), template_path("linux/x", "CIS")}

Disks ==
    {[p \in Paths |->
        IF p = ConfigPath THEN c
        ELSE IF p = ScriptPath THEN o
        ELSE IF p = tp THEN t
        ELSE Absent] :
     c \in {File(d) : d \in ConfigDocs} \cup {Absent},
     o \in {Absent, File(OldScript)},
     tp \in InstalledTemplatePaths,
     t \in {File(x) : x \in TemplateSources} \cup {Absent}}

NoPrev == [valid |-> FALSE, env |-> [cfg_readable |-> TRUE, out |-> "ok"],
           config_file |-> Absent, template_file |-> Absent,
           exit_status |-> Running, output |-> Absent]

TemplateFile(disk) == disk[template_path(args.platform, args.compliance_standard)]

\* CompliancePolicyGenerator.__init__ (main.py:29-34) under main (main.py:122-131)
Init ==
    /\ fs \in Disks
    /\ args \in Argvs
    /\ env \in Envs
    /\ config = Null
    /\ template = NoTemplate
    /\ template_path_arg = ""
    /\ rendered_script = <<>>
    /\ pc = run_order[1]
    /\ raised = "none"
    /\ exit_status = Running
    /\ log = <<>>
    /\ started = <<>>
    /\ finished = <<>>
    /\ before = fs
    /\ prev = NoPrev
    /\ run_no = 1

-----------------------------------------------------------------------------
(* The stages *)

\* main.py:36-49
load_config ==
    /\ pc = "load_config"
    /\ LET file == fs[args.config_file]
           value == yaml_safe_load(file.lines)
           outcome == IF ~file.exists THEN "FileNotFoundError"
                      ELSE IF ~env.cfg_readable THEN "PermissionError"
                      ELSE IF value = YAMLError THEN "YAMLError"
                      ELSE "ok"
           log2 == log \o load_config_log(outcome)
       IN /\ config' = IF outcome = "ok" THEN value ELSE config
          /\ log' = log2
          /\ started' = Enter("load_config")
          /\ finished' = Leave("load_config", outcome, started', log2)
          /\ raised' = IF outcome = "ok" THEN "none" ELSE outcome
          /\ pc' = IF outcome = "ok" THEN after_return("load_config")
                   ELSE after_raise("load_config")
    /\ UNCHANGED <<fs, args, env, template, template_path_arg, rendered_script,
                   exit_status, before, prev, run_no>>

\* main.py:51-61
validate_config ==
    /\ pc = "validate_config"
    /\ LET outcome == validate_outcome(config)
           log2 == log \o validate_config_log(config)
       IN /\ log' = log2
          /\ started' = Enter("validate_config")
          /\ finished' = Leave("validate_config", outcome, started', log2)
          /\ raised' = IF outcome = "ok" THEN "none" ELSE outcome
          /\ pc' = IF outcome = "ok" THEN after_return("validate_config")
                   ELSE after_raise("validate_config")
    /\ UNCHANGED <<fs, args, env, config, template, template_path_arg,
                   rendered_script,
                   exit_status, before, prev, run_no>>

\* main.py:63-77
load_template ==
    /\ pc = "load_template"
    /\ LET path == template_path(args.platform, args.compliance_standard)
           file == fs[path]
           outcome == get_template(file)
           log2 == log \o load_template_log(outcome)
       IN /\ template_path_arg' = path
          /\ template' = IF outcome = "ok" THEN Loaded(file.lines) ELSE template
          /\ log' = log2
          /\ started' = Enter("load_template")
          /\ finished' = Leave("load_template", outcome, started', log2)
          /\ raised' = IF outcome = "ok" THEN "none" ELSE outcome
          /\ pc' = IF outcome = "ok" THEN after_return("load_template")
                   ELSE after_raise("load_template")
    /\ UNCHANGED <<fs, args, env, config, rendered_script, exit_status,
                   before, prev, run_no>>

\* faulty variant of generate_script: the output opened before the render
generate_script_open_first ==
    /\ pc = "generate_script"
    /\ LET result == render(template.source, config)
           log2 == IF result.ok THEN log ELSE log \o generate_script_error_log
       IN /\ rendered_script' = result.lines
          /\ fs' = IF env.out = "open_fails" THEN fs
                   ELSE [fs EXCEPT ![args.output_file] = File(<<>>)]
          /\ log' = log2
          /\ started' = Enter("generate_script")
          /\ IF result.ok
             THEN /\ pc' = "write"
                  /\ UNCHANGED <<finished, raised>>
             ELSE /\ pc' = after_raise("generate_script")
                  /\ finished' = Leave("generate_script", "UndefinedError", started', log2)
                  /\ raised' = "UndefinedError"
    /\ UNCHANGED <<args, env, config, template, template_path_arg,
                   exit_status, before, prev, run_no>>

\* main.py:83-84, 88-90: generate_script up to the render
generate_script ==
    /\ pc = "generate_script"
    /\ LET result == render(template.source, config)
           log2 == IF result.ok THEN log ELSE log \o generate_script_error_log
       IN /\ rendered_script' = result.lines
          /\ log' = log2
          /\ started' = Enter("generate_script")
          /\ IF result.ok
             THEN /\ pc' = "write"
                  /\ UNCHANGED <<finished, raised>>
             ELSE /\ pc' = after_raise("generate_script")
                  /\ finished' = Leave("generate_script", "UndefinedError", started', log2)
                  /\ raised' = "UndefinedError"
    /\ UNCHANGED <<fs, args, env, config, template, template_path_arg,
                   exit_status, before, prev, run_no>>

\* main.py:85-86, 88-90: open(self.output_file, 'w'), f.write, close
generate_script_write ==
    /\ pc = "write"
    /\ LET path == args.output_file
           log2 == IF env.out = "ok" THEN log ELSE log \o generate_script_error_log
       IN /\ \/ /\ env.out = "ok"
                /\ fs' = [fs EXCEPT ![path] = write_file(fs[path], rendered_script)]
             \/ /\ env.out = "open_fails"
                /\ fs' = fs
             \/ /\ env.out = "write_fails"
                /\ \E partial \in PartialWrites(rendered_script) :
                      fs' = [fs EXCEPT ![path] = partial]
          /\ log' = log2
          /\ IF env.out = "ok"
             THEN /\ pc' = "written"
                  /\ UNCHANGED <<finished, raised>>
             ELSE /\ pc' = after_raise("generate_script")
                  /\ finished' = Leave("generate_script", "OSError", started, log2)
                  /\ raised' = "OSError"
    /\ UNCHANGED <<args, env, config, template, template_path_arg,
                   rendered_script, exit_status, started, before, prev, run_no>>

\* main.py:87
generate_script_done ==
    /\ pc = "written"
    /\ log' = Append(log, Rec("INFO", SuccessMsg))
    /\ finished' = Leave("generate_script", "ok", started, log')
    /\ pc' = after_return("generate_script")
    /\ UNCHANGED <<fs, args, env, config, template, template_path_arg,
                   rendered_script, raised,
                   exit_status, started, before, prev, run_no>>

\* main.py:101-103: except Exception -> logging.error, sys.exit(1)
run_except ==
    /\ pc = "except"
    /\ log' = log \o run_except_log
    /\ raised' = "SystemExit"
    /\ pc' = "main"
    /\ UNCHANGED <<fs, args, env, config, template, template_path_arg,
                   rendered_script,
                   exit_status, started, finished, before, prev, run_no>>

\* main.py:131-134 and interpreter exit: run() returned, or SystemExit passes
\* through main's `except Exception`
main ==
    /\ pc \in {"return", "main"}
    /\ IF main_catches(raised)
       THEN /\ log' = log \o main_except_log
            /\ exit_status' = ExitFailure
       ELSE /\ log' = log
            /\ exit_status' = IF raised = "SystemExit" THEN ExitFailure ELSE ExitSuccess
    /\ pc' = "exited"
    /\ UNCHANGED <<fs, args, env, config, template, template_path_arg,
                   rendered_script, raised,
                   started, finished, before, prev, run_no>>

\* the same command line is run again on the disk the last run left
rerun ==
    /\ pc = "exited"
    /\ run_no < MaxRuns
    /\ run_no' = run_no + 1
    /\ env' \in Envs
    /\ prev' = [valid |-> TRUE, env |-> env,
                config_file |-> before[args.config_file],
                template_file |-> TemplateFile(before),
                exit_status |-> exit_status,
                output |-> fs[args.output_file]]
    /\ before' = fs
    /\ config' = Null
    /\ template' = NoTemplate
    /\ template_path_arg' = ""
    /\ rendered_script' = <<>>
    /\ pc' = run_order[1]
    /\ raised' = "none"
    /\ exit_status' = Running
    /\ log' = <<>>
    /\ started' = <<>>
    /\ finished' = <<>>
    /\ UNCHANGED <<fs, args>>

Next ==
    \/ load_config
    \/ validate_config
    \/ load_template
    \/ generate_script
    \/ generate_script_write
    \/ generate_script_done
    \/ run_except
    \/ main
    \/ rerun

Spec == Init /\ [][Next]_vars

-----------------------------------------------------------------------------
(* Properties *)

Stages == <<"load_config", "validate_config", "load_template", "generate_script">>
StageFailures == {"FileNotFoundError", "YAMLError", "ValueError", "TemplateNotFound",
                  "TemplateSyntaxError", "UndefinedError", "OSError"}
Exited == pc = "exited"
AllStagesOk ==
    /\ Len(finished) = Len(Stages)
    /\ \A i \in 1..Len(finished) : finished[i].outcome = "ok"
Failure == IF finished # <<>> /\ finished[Len(finished)].outcome # "ok"
           THEN finished[Len(finished)].outcome ELSE "none"
OutputFile == fs[args.output_file]
\* the text the files the run began with render to
RenderingOfInputs ==
    render(TemplateFile(before).lines,
           yaml_safe_load(before[args.config_file].lines)).lines

\* C1: the stages start in the order load_config, validate_config,
\* load_template, generate_script, each at most once; a stage starts only when
\* every earlier stage has returned without raising; after a stage raises no
\* further stage starts.
C1_StagesInOrder ==
    /\ Len(started) <= Len(Stages)
    /\ \A i \in 1..Len(started) : started[i].stage = Stages[i]
    /\ Len(finished) <= Len(started)
    /\ \A i \in 1..Len(started) : \A j \in 1..(i - 1) :
          /\ j <= Len(finished)
          /\ finished[j].stage = Stages[j]
          /\ finished[j].outcome = "ok"
    /\ \A j \in 1..Len(finished) :
          finished[j].outcome # "ok" => (Len(started) = j /\ pc \notin Range(Stages))

C1_Witness ==
    /\ Exited
    /\ Len(started) = 3
    /\ finished[3].outcome = "TemplateNotFound"

\* C2: the exit status is 0 exactly when all four stages succeeded and 1 when
\* any stage failed, whatever the failure; main's handler adds nothing to the
\* SystemExit(1) of run().
C2_ExitStatus ==
    Exited =>
        /\ exit_status \in {0, 1}
        /\ (exit_status = 0) <=> AllStagesOk
        /\ Failure # "none" => exit_status = 1
        /\ ~HasMsg(log, "An unexpected error occurred")

C2_Witness == Exited /\ Failure = "OSError" /\ exit_status = 1

\* C3: when the process ends with status 0 the output file holds exactly the
\* rendering of the template and configuration the run loaded, whatever the
\* path held before; the success message is logged only once the file holds
\* the whole rendered text.
C3_OutputIsRendering ==
    /\ (Exited /\ exit_status = 0) => OutputFile = File(RenderingOfInputs)
    /\ HasMsg(log, SuccessMsg) => OutputFile = File(rendered_script)

C3_Witness ==
    /\ Exited /\ exit_status = 0
    /\ HasMsg(log, SuccessMsg)
    /\ before[args.output_file].exists
    /\ before[args.output_file] # OutputFile

\* C4: a run that fails before the write step (configuration missing,
\* unreadable or unparsable, not a mapping, template absent or unloadable,
\* render raising) leaves the output path as it was before the run.
C4_FailureBeforeWriteLeavesOutput ==
    (Failure # "none" /\ Failure # "OSError") =>
        /\ OutputFile = before[args.output_file]
        /\ fs = before

C4_Witness ==
    /\ Exited
    /\ Failure = "UndefinedError"
    /\ before[args.output_file].exists

\* C5: validate_config raises exactly when the loaded top-level value is not a
\* mapping: it raises for a sequence, a scalar and null, and returns for every
\* mapping whatever its keys.
C5_ValidateRaisesIffNotMapping ==
    Len(finished) >= 2 =>
        /\ config = yaml_safe_load(before[args.config_file].lines)
        /\ (finished[2].outcome = "ValueError") <=> (config.kind # "mapping")
        /\ (finished[2].outcome = "ok") <=> (config.kind = "mapping")

C5_Witness ==
    /\ Len(finished) >= 2
    /\ finished[2].outcome = "ValueError"
    /\ config = Null

\* C6: for a mapping without 'policies' validate_config logs exactly one
\* WARNING and does not abort: load_template and then generate_script are
\* still attempted; for a mapping with 'policies' no WARNING is logged.
C6_MissingPoliciesWarnsOnly ==
    (Len(finished) >= 2 /\ config.kind = "mapping") =>
        /\ Len(Warnings(log)) = (IF "policies" \in config.keys THEN 0 ELSE 1)
        /\ finished[2].outcome = "ok"
        /\ pc = "load_template" \/ Len(started) >= 3
        /\ (Len(finished) >= 3 /\ finished[3].outcome = "ok") =>
              (pc = "generate_script" \/ Len(started) = 4)

C6_Witness ==
    /\ Exited /\ exit_status = 0
    /\ "policies" \notin config.keys
    /\ Len(Warnings(log)) = 1

\* C7: the path load_template asks for is templates/<platform>/<standard>.j2
\* with both values verbatim; with the standard fixed, different platforms give
\* different paths, and with the platform fixed, different standards do.
C7_TemplatePath ==
    /\ template_path_arg # "" =>
          template_path_arg =
              "templates/" \o args.platform \o "/" \o args.compliance_standard \o ".j2"
    /\ \A s \in Standards : \A p1, p2 \in Platforms :
          p1 # p2 => template_path(p1, s) # template_path(p2, s)
    /\ \A p \in Platforms : \A s1, s2 \in Standards :
          s1 # s2 => template_path(p, s1) # template_path(p, s2)

C7_Witness ==
    /\ template_path_arg = "templates/linux/x/CIS.j2"
    /\ args.platform = "linux/x"
    /\ template.loaded

\* C8: two runs in a row of the same command on the same configuration and
\* template files, the output path writable, end with the same exit status and
\* leave the same output file.
SameInputsAsPrev ==
    /\ prev.valid
    /\ prev.config_file = before[args.config_file]
    /\ prev.template_file = TemplateFile(before)
    /\ prev.env.cfg_readable = env.cfg_readable
    /\ prev.env.out = "ok" /\ env.out = "ok"

C8_SecondRunSame ==
    (Exited /\ SameInputsAsPrev) =>
        /\ exit_status = prev.exit_status
        /\ OutputFile = prev.output

C8_Witness ==
    /\ Exited /\ SameInputsAsPrev
    /\ exit_status = 0
    /\ OutputFile.lines # <<>>

\* C9 as claimed: every failing run emits exactly one ERROR line.
C9_OneErrorLine ==
    (Exited /\ exit_status # 0) => Len(Errors(log)) = 1

\* C9 as amended: a run that fails in one of the seven named ways emits exactly
\* two ERROR lines, the failing stage's own and then run()'s "Script generation
\* failed"; a configuration file that exists but cannot be opened gets run()'s
\* line alone.
C9_ErrorLines ==
    (Exited /\ exit_status # 0) =>
        /\ Failure \in StageFailures \cup {"PermissionError"}
        /\ Failure \in StageFailures =>
              /\ Len(Errors(log)) = 2
              /\ Errors(log)[1].msg # "Script generation failed"
              /\ log[Len(log)] = Rec("ERROR", "Script generation failed")
        /\ Failure = "PermissionError" =>
              Errors(log) = <<Rec("ERROR", "Script generation failed")>>

C9_Witness ==
    /\ Exited
    /\ Failure = "YAMLError"
    /\ Len(Errors(log)) = 2

\* C10 as claimed: every stage that completes has emitted at least one log
\* record, and every failing run has an ERROR record by the time it exits.
C10_EveryStageLogs ==
    /\ \A i \in 1..Len(finished) :
          finished[i].outcome = "ok" => finished[i].nlog >= 1
    /\ (Exited /\ exit_status # 0) => Len(Errors(log)) >= 1

\* C10 as amended: load_config, load_template and generate_script each emit
\* at least one record when they complete; validate_config emits one (the
\* WARNING) only when 'policies' is missing and none otherwise; every failing
\* run has an ERROR record by the time it exits.
C10_StageLogs ==
    /\ \A i \in 1..Len(finished) :
          finished[i].outcome = "ok" =>
              IF finished[i].stage = "validate_config"
              THEN finished[i].nlog = (IF "policies" \in config.keys THEN 0 ELSE 1)
              ELSE finished[i].nlog >= 1
    /\ (Exited /\ exit_status # 0) => Len(Errors(log)) >= 1

C10_Witness ==
    /\ Exited /\ exit_status = 0
    /\ finished[2].nlog = 0
    /\ finished[3].nlog = 1

====
